---- MODULE Spec2Model ----
(***************************************************************************)
(* glogrus: an http middleware that logs every request twice through a     *)
(* logrus logger, "req_start" before the wrapped handler runs and          *)
(* "req_served" after it has returned (glogrus.go, NewGlogrusWithReqId).   *)
(*                                                                         *)
(* The closure fn (glogrus.go 73-101) is modelled statement by statement,  *)
(* one invocation per request, the invocations interleaving freely as the  *)
(* goroutines of net/http do.  The wrapped handler is an arbitrary         *)
(* environment: it calls WriteHeader and Write on the writer it is given,  *)
(* assigns to the fields of the *http.Request it is given, and returns or  *)
(* panics.                                                                 *)
(*                                                                         *)
(* wrapWriter, maybeWriteHeader and status (the writer proxy) are used by  *)
(* glogrus.go but defined elsewhere in the package; they are modelled from *)
(* section 4.1 of the specification (ResponseObserver).                    *)
(***************************************************************************)
EXTENDS Integers, Sequences, FiniteSets, TLC

\* ------------------------------------------------------------------ bounds

\* the handler makes at most MaxSteps calls/assignments in a one-request run
MaxSteps == 3
\* and at most MaxStepsConc in a run with concurrent requests
MaxStepsConc == 1

\* ------------------------------------------------------------- input sets

Requests == {1, 2}          \* identities of the requests (two goroutines)
Solo     == {1}             \* the request of a one-request run

\* status codes a handler passes to WriteHeader
Codes == {404, 500}
\* byte slices a handler passes to Write
Chunks == {"a", "b"}
\* *http.Request values as they arrive: Method, RequestURI, RemoteAddr and the
\* request id carried by the request's context
Arrivals ==
    { [Method |-> "GET",  RequestURI |-> "/ping",  RemoteAddr |-> "10.0.0.1:40000", ctx |-> "req-123"],
      [Method |-> "POST", RequestURI |-> "/items", RemoteAddr |-> "10.0.0.2:40000", ctx |-> "req-456"] }
\* what a handler may assign to a field of the request it was passed
Rewrites ==
    [Method |-> "HEAD", RequestURI |-> "/rewritten", RemoteAddr |-> "127.0.0.1:1", ctx |-> "req-789"]
ReqFields == {"Method", "RequestURI", "RemoteAddr", "ctx"}
\* the field a handler assigns to in a run with concurrent requests
ConcFields == {"Method"}
\* application names given at construction
AppNames == {"my-app-name"}
\* the resolvers given at construction: emptyRequestId (NewGlogrus) or a
\* caller's function reading the id out of the context
Resolvers == {"emptyRequestId", "fromContext"}
\* readings of the monotonic clock, in nanoseconds
Instants == {0, 40, 1000000}

Unset == "<unset>"

VARIABLES
    l,          \* the records the logrus logger has been given, in order
    name,       \* the app name the middleware was constructed with
    reqidf,     \* the resolver the middleware was constructed with
    now,        \* the last reading of the monotonic clock
    pc,         \* pc[q]: where the invocation of fn for request q stands
    r,          \* r[q]: the *http.Request of q (shared with the handler)
    w,          \* w[q]: the http.ResponseWriter of q (the underlying writer)
    ctx,        \* locals of fn, per invocation
    start,
    reqID,
    lresp,
    steps,      \* steps[q]: calls/assignments the handler of q has made
    calls,      \* history: the WriteHeader/Write calls the handler of q made
    arrived,    \* history: r[q] as it arrived
    resolved,   \* history: the values the resolver returned for q
    runs,       \* history: how often the handler of q was invoked / returned
    finalized,  \* history: what each run of line 88 sent to w[q]
    reads       \* history: the clock readings made for q

vars == <<l, name, reqidf, now, pc, r, w, ctx, start, reqID, lresp,
          steps, calls, arrived, resolved, runs, finalized, reads>>

\* ------------------------------------------- the underlying response writer

\* The http.ResponseWriter the server hands to fn: the first WriteHeader fixes
\* the status, later ones have no effect; a Write with no status yet sends an
\* implicit 200 first.  headerCalls records every WriteHeader call received.
NewResponseWriter ==
    [wroteHeader |-> FALSE, status |-> 0, body |-> <<>>, headerCalls |-> <<>>]

StatusOK == 200

UnderlyingWriteHeader(u, code) ==
    [u EXCEPT !.headerCalls = Append(@, code),
              !.wroteHeader = TRUE,
              !.status      = IF u.wroteHeader THEN @ ELSE code]

UnderlyingWrite(u, bytes) ==
    [u EXCEPT !.wroteHeader = TRUE,
              !.status      = IF u.wroteHeader THEN @ ELSE StatusOK,
              !.body        = Append(@, bytes)]

\* what the client is sent once the server has finished the response: a
\* response whose handler never set a status goes out as 200
Sent(u) ==
    [status |-> IF u.wroteHeader THEN u.status ELSE StatusOK, body |-> u.body]

\* ----------------------------------------------- the writer proxy (lresp)

\* An operation of the proxy acts on the proxy p and on the writer u it wraps
\* and yields both.
wrapWriter(u) == [wroteHeader |-> FALSE, code |-> 0]

\* records every code
WriteHeaderLastWins(p, u, code) ==
    [p |-> [wroteHeader |-> TRUE, code |-> code],
     u |-> UnderlyingWriteHeader(u, code)]

\* forwards code, records the first code only
WriteHeader(p, u, code) ==
    [p |-> IF p.wroteHeader THEN p ELSE [wroteHeader |-> TRUE, code |-> code],
     u |-> UnderlyingWriteHeader(u, code)]

\* records 200 if no status was written yet, then forwards the bytes
Write(p, u, bytes) ==
    [p |-> IF p.wroteHeader THEN p ELSE [wroteHeader |-> TRUE, code |-> StatusOK],
     u |-> UnderlyingWrite(u, bytes)]

\* records and sends 200 if no status was written yet, else does nothing
maybeWriteHeader(p, u) ==
    IF p.wroteHeader
    THEN [p |-> p, u |-> u]
    ELSE [p |-> [wroteHeader |-> TRUE, code |-> StatusOK],
          u |-> UnderlyingWriteHeader(u, StatusOK)]

status(p) == p.code

\* ------------------------------------------------------- the middleware

emptyRequestId(c) == ""

\* reqidf(ctx): c is the request id the context carries
CallReqidf(f, c) == IF f = "emptyRequestId" THEN emptyRequestId(c) ELSE c

\* float64(time.Since(start)) / float64(time.Millisecond), kept in nanoseconds
Since(t0, t1) == t1 - t0

Pad4(n) ==
    IF n < 10 THEN "000" \o ToString(n)
    ELSE IF n < 100 THEN "00" \o ToString(n)
    ELSE IF n < 1000 THEN "0" \o ToString(n)
    ELSE ToString(n)

\* fmt.Sprintf("%6.4f ms", latency): the latency in milliseconds rounded to
\* four decimals, that is to the nearest 100 ns (no two readings of Instants
\* are an odd multiple of 50 ns apart, so no latency falls on a half).
Sprintf(ns) ==
    LET tenThousandths == (ns + 50) \div 100
    IN  ToString(tenThousandths \div 10000) \o "." \o
        Pad4(tenThousandths % 10000) \o " ms"

StartFieldsWithStatus(id, rq) ==
    [req_id |-> id,
     status |-> 0,
     uri    |-> rq.RequestURI,
     method |-> rq.Method,
     remote |-> rq.RemoteAddr]

\* logrus.Fields of the "req_start" record
StartFields(id, rq) ==
    [req_id |-> id,
     uri    |-> rq.RequestURI,
     method |-> rq.Method,
     remote |-> rq.RemoteAddr]

ServedFieldsStatusOK(id, st, rq, lat, nm) ==
    [req_id  |-> id,
     status  |-> StatusOK,
     method  |-> rq.Method,
     uri     |-> rq.RequestURI,
     remote  |-> rq.RemoteAddr,
     latency |-> lat,
     app     |-> nm]

ServedFieldsReResolve(id, st, rq, lat, nm) ==
    [req_id  |-> rq.ctx,
     status  |-> st,
     method  |-> rq.Method,
     uri     |-> rq.RequestURI,
     remote  |-> rq.RemoteAddr,
     latency |-> lat,
     app     |-> nm]

ServedFieldsSwapped(id, st, rq, lat, nm) ==
    [req_id  |-> id,
     status  |-> st,
     method  |-> rq.RequestURI,
     uri     |-> rq.Method,
     remote  |-> rq.RemoteAddr,
     latency |-> lat,
     app     |-> nm]

\* logrus.Fields of the "req_served" record
ServedFields(id, st, rq, lat, nm) ==
    [req_id  |-> id,
     status  |-> st,
     method  |-> rq.Method,
     uri     |-> rq.RequestURI,
     remote  |-> rq.RemoteAddr,
     latency |-> lat,
     app     |-> nm]

\* l.WithFields(fields).Info(msg); of names the request whose invocation of
\* fn made the call (history, not part of the record)
Info(q, msg, fields) ==
    [of |-> q, level |-> "info", msg |-> msg, fields |-> fields]

FrameShared(q) == 1

\* ctx, start, reqID and lresp are declared with := inside fn: every
\* invocation has its own
Frame(q) == q

\* "req_start" logged after the handler has run
NextPcHandlerFirst(at, outcome) ==
    IF outcome = "panic" THEN "panicked"
    ELSE CASE at = "idle"       -> "resolve"
           [] at = "resolve"    -> "wrap"
           [] at = "wrap"       -> "invoke"
           [] at = "invoke"     -> "handler"
           [] at = "handler"    -> "log_start"
           [] at = "log_start"  -> "finalize"
           [] at = "finalize"   -> "log_served"
           [] at = "log_served" -> "done"

\* a deferred recover that goes on to log the request
NextPcRecover(at, outcome) ==
    IF outcome = "panic"
    THEN IF at = "handler" THEN "finalize" ELSE "panicked"
    ELSE CASE at = "idle"       -> "resolve"
           [] at = "resolve"    -> "log_start"
           [] at = "log_start"  -> "wrap"
           [] at = "wrap"       -> "invoke"
           [] at = "invoke"     -> "handler"
           [] at = "handler"    -> "finalize"
           [] at = "finalize"   -> "log_served"
           [] at = "log_served" -> "done"

\* line 88 left out
NextPcNoFinalize(at, outcome) ==
    IF outcome = "panic" THEN "panicked"
    ELSE CASE at = "idle"       -> "resolve"
           [] at = "resolve"    -> "log_start"
           [] at = "log_start"  -> "wrap"
           [] at = "wrap"       -> "invoke"
           [] at = "invoke"     -> "handler"
           [] at = "handler"    -> "log_served"
           [] at = "finalize"   -> "log_served"
           [] at = "log_served" -> "done"

\* line 88 before line 87
NextPcFinalizeFirst(at, outcome) ==
    IF outcome = "panic" THEN "panicked"
    ELSE CASE at = "idle"       -> "resolve"
           [] at = "resolve"    -> "log_start"
           [] at = "log_start"  -> "wrap"
           [] at = "wrap"       -> "finalize"
           [] at = "finalize"   -> "invoke"
           [] at = "invoke"     -> "handler"
           [] at = "handler"    -> "log_served"
           [] at = "log_served" -> "done"

\* the order of the statements of fn; a panic of reqidf or of h unwinds fn
\* (fn has no recover)
NextPc(at, outcome) ==
    IF outcome = "panic" THEN "panicked"
    ELSE CASE at = "idle"       -> "resolve"
           [] at = "resolve"    -> "log_start"
           [] at = "log_start"  -> "wrap"
           [] at = "wrap"       -> "invoke"
           [] at = "invoke"     -> "handler"
           [] at = "handler"    -> "finalize"
           [] at = "finalize"   -> "log_served"
           [] at = "log_served" -> "done"

\* ------------------------------------------------------------- the state

NoProxy == [wroteHeader |-> FALSE, code |-> -1]

Init ==
    /\ l = <<>>
    /\ name \in AppNames
    /\ reqidf \in Resolvers
    /\ now = 0
    /\ pc = [q \in Requests |-> "idle"]
    /\ r \in [Requests -> Arrivals]
    /\ arrived = r
    /\ w = [q \in Requests |-> NewResponseWriter]
    /\ ctx = [q \in Requests |-> Unset]
    /\ start = [q \in Requests |-> -1]
    /\ reqID = [q \in Requests |-> Unset]
    /\ lresp = [q \in Requests |-> NoProxy]
    /\ steps = [q \in Requests |-> 0]
    /\ calls = [q \in Requests |-> <<>>]
    /\ resolved = [q \in Requests |-> <<>>]
    /\ runs = [q \in Requests |-> [invoked |-> 0, returned |-> 0, panicked |-> 0]]
    /\ finalized = [q \in Requests |-> <<>>]
    /\ reads = [q \in Requests |-> <<>>]

\* lines 74-75: ctx := r.Context(); start := time.Now()
Begin(q) ==
    /\ pc[q] = "idle"
    /\ \E t \in Instants :
          /\ t >= now
          /\ now' = t
          /\ reads' = [reads EXCEPT ![q] = Append(@, t)]
          /\ start' = [start EXCEPT ![Frame(q)] = t]
    /\ ctx' = [ctx EXCEPT ![Frame(q)] = r[q].ctx]
    /\ pc' = [pc EXCEPT ![q] = NextPc("idle", "ok")]
    /\ UNCHANGED <<l, name, reqidf, r, w, reqID, lresp, steps, calls, arrived,
                   resolved, runs, finalized>>

\* line 77: reqID := reqidf(ctx), reqidf returning
ResolveReturns(q) ==
    /\ pc[q] = "resolve"
    /\ reqID' = [reqID EXCEPT ![Frame(q)] = CallReqidf(reqidf, ctx[Frame(q)])]
    /\ resolved' = [resolved EXCEPT ![q] = Append(@, CallReqidf(reqidf, ctx[Frame(q)]))]
    /\ pc' = [pc EXCEPT ![q] = NextPc("resolve", "ok")]
    /\ UNCHANGED <<l, name, reqidf, now, r, w, ctx, start, lresp, steps, calls,
                   arrived, runs, finalized, reads>>

\* line 77: a caller's reqidf panicking (emptyRequestId cannot)
ResolvePanics(q) ==
    /\ pc[q] = "resolve"
    /\ reqidf # "emptyRequestId"
    /\ resolved' = [resolved EXCEPT ![q] = Append(@, "<panic>")]
    /\ pc' = [pc EXCEPT ![q] = NextPc("resolve", "panic")]
    /\ UNCHANGED <<l, name, reqidf, now, r, w, ctx, start, reqID, lresp, steps,
                   calls, arrived, runs, finalized, reads>>

\* lines 79-84
LogStart(q) ==
    /\ pc[q] = "log_start"
    /\ l' = Append(l, Info(q, "req_start", StartFields(reqID[Frame(q)], r[q])))
    /\ pc' = [pc EXCEPT ![q] = NextPc("log_start", "ok")]
    /\ UNCHANGED <<name, reqidf, now, r, w, ctx, start, reqID, lresp, steps,
                   calls, arrived, resolved, runs, finalized, reads>>

\* line 85: lresp := wrapWriter(w)
Wrap(q) ==
    /\ pc[q] = "wrap"
    /\ lresp' = [lresp EXCEPT ![Frame(q)] = wrapWriter(w[q])]
    /\ pc' = [pc EXCEPT ![q] = NextPc("wrap", "ok")]
    /\ UNCHANGED <<l, name, reqidf, now, r, w, ctx, start, reqID, steps, calls,
                   arrived, resolved, runs, finalized, reads>>

\* line 87: h.ServeHTTP(lresp, r), the call
Invoke(q) ==
    /\ pc[q] = "invoke"
    /\ runs' = [runs EXCEPT ![q].invoked = @ + 1]
    /\ pc' = [pc EXCEPT ![q] = NextPc("invoke", "ok")]
    /\ UNCHANGED <<l, name, reqidf, now, r, w, ctx, start, reqID, lresp, steps,
                   calls, arrived, resolved, finalized, reads>>

\* the handler calls WriteHeader on the writer it was given
HandlerWriteHeader(q, lim) ==
    /\ pc[q] = "handler"
    /\ steps[q] < lim
    /\ \E code \in Codes :
          LET res == WriteHeader(lresp[Frame(q)], w[q], code)
          IN  /\ lresp' = [lresp EXCEPT ![Frame(q)] = res.p]
              /\ w' = [w EXCEPT ![q] = res.u]
              /\ calls' = [calls EXCEPT ![q] = Append(@, [op |-> "WriteHeader", arg |-> code])]
    /\ steps' = [steps EXCEPT ![q] = @ + 1]
    /\ UNCHANGED <<l, name, reqidf, now, pc, r, ctx, start, reqID, arrived,
                   resolved, runs, finalized, reads>>

\* the handler calls Write on the writer it was given
HandlerWrite(q, lim) ==
    /\ pc[q] = "handler"
    /\ steps[q] < lim
    /\ \E bytes \in Chunks :
          LET res == Write(lresp[Frame(q)], w[q], bytes)
          IN  /\ lresp' = [lresp EXCEPT ![Frame(q)] = res.p]
              /\ w' = [w EXCEPT ![q] = res.u]
              /\ calls' = [calls EXCEPT ![q] = Append(@, [op |-> "Write", arg |-> bytes])]
    /\ steps' = [steps EXCEPT ![q] = @ + 1]
    /\ UNCHANGED <<l, name, reqidf, now, pc, r, ctx, start, reqID, arrived,
                   resolved, runs, finalized, reads>>

\* the handler assigns to a field of the *http.Request it was given
\* (r.Method = ..., *r = *r.WithContext(...))
HandlerAssigns(q, lim, fields) ==
    /\ pc[q] = "handler"
    /\ steps[q] < lim
    /\ \E f \in fields :
          /\ r[q][f] # Rewrites[f]
          /\ r' = [r EXCEPT ![q][f] = Rewrites[f]]
    /\ steps' = [steps EXCEPT ![q] = @ + 1]
    /\ UNCHANGED <<l, name, reqidf, now, pc, w, ctx, start, reqID, lresp, calls,
                   arrived, resolved, runs, finalized, reads>>

\* line 87: h.ServeHTTP returns
HandlerReturns(q) ==
    /\ pc[q] = "handler"
    /\ runs' = [runs EXCEPT ![q].returned = @ + 1]
    /\ pc' = [pc EXCEPT ![q] = NextPc("handler", "ok")]
    /\ UNCHANGED <<l, name, reqidf, now, r, w, ctx, start, reqID, lresp, steps,
                   calls, arrived, resolved, finalized, reads>>

\* line 87: h.ServeHTTP panics
HandlerPanics(q) ==
    /\ pc[q] = "handler"
    /\ runs' = [runs EXCEPT ![q].panicked = @ + 1]
    /\ pc' = [pc EXCEPT ![q] = NextPc("handler", "panic")]
    /\ UNCHANGED <<l, name, reqidf, now, r, w, ctx, start, reqID, lresp, steps,
                   calls, arrived, resolved, finalized, reads>>

\* line 88: lresp.maybeWriteHeader(); finalized records the WriteHeader calls
\* this run of the line made on w
Finalize(q) ==
    /\ pc[q] = "finalize"
    /\ LET res == maybeWriteHeader(lresp[Frame(q)], w[q])
       IN  /\ lresp' = [lresp EXCEPT ![Frame(q)] = res.p]
           /\ w' = [w EXCEPT ![q] = res.u]
           /\ finalized' = [finalized EXCEPT ![q] =
                  Append(@, SubSeq(res.u.headerCalls,
                                   Len(w[q].headerCalls) + 1,
                                   Len(res.u.headerCalls)))]
    /\ pc' = [pc EXCEPT ![q] = NextPc("finalize", "ok")]
    /\ UNCHANGED <<l, name, reqidf, now, r, ctx, start, reqID, steps, calls,
                   arrived, resolved, runs, reads>>

\* lines 90-100
LogServed(q) ==
    /\ pc[q] = "log_served"
    /\ \E t \in Instants :
          /\ t >= now
          /\ now' = t
          /\ reads' = [reads EXCEPT ![q] = Append(@, t)]
          /\ l' = Append(l, Info(q, "req_served",
                     ServedFields(reqID[Frame(q)], status(lresp[Frame(q)]), r[q],
                                  Sprintf(Since(start[Frame(q)], t)), name)))
    /\ pc' = [pc EXCEPT ![q] = NextPc("log_served", "ok")]
    /\ UNCHANGED <<name, reqidf, r, w, ctx, start, reqID, lresp, steps, calls,
                   arrived, resolved, runs, finalized>>

\* one request at a time
Next ==
    \E q \in Solo :
        \/ Begin(q)
        \/ ResolveReturns(q)
        \/ ResolvePanics(q)
        \/ LogStart(q)
        \/ Wrap(q)
        \/ Invoke(q)
        \/ HandlerWriteHeader(q, MaxSteps)
        \/ HandlerWrite(q, MaxSteps)
        \/ HandlerAssigns(q, MaxSteps, ReqFields)
        \/ HandlerReturns(q)
        \/ HandlerPanics(q)
        \/ Finalize(q)
        \/ LogServed(q)

Spec == Init /\ [][Next]_vars

\* the requests served concurrently, every interleaving of their steps
NextConc ==
    \E q \in Requests :
        \/ Begin(q)
        \/ ResolveReturns(q)
        \/ ResolvePanics(q)
        \/ LogStart(q)
        \/ Wrap(q)
        \/ Invoke(q)
        \/ HandlerWriteHeader(q, MaxStepsConc)
        \/ HandlerWrite(q, MaxStepsConc)
        \/ HandlerAssigns(q, MaxStepsConc, ConcFields)
        \/ HandlerReturns(q)
        \/ HandlerPanics(q)
        \/ Finalize(q)
        \/ LogServed(q)

SpecConc == Init /\ [][NextConc]_vars

\* ---------------------------------------------------------- the claims

\* positions in l of the records request q emitted under event name msg
Emitted(q, msg) == {i \in DOMAIN l : l[i].of = q /\ l[i].msg = msg}

ResolverReturned(q) == resolved[q] # <<>> /\ resolved[q][1] # "<panic>"
ResolverPanicked(q) == resolved[q] # <<>> /\ resolved[q][1] = "<panic>"
Finished(q) == pc[q] \in {"done", "panicked"}

\* the status a response has by the calls that made it: the code of the first
\* call if that is a WriteHeader, else 200
ExpectedStatus(cs) ==
    IF cs # <<>> /\ cs[1].op = "WriteHeader" THEN cs[1].arg ELSE 200

\* the id the constructed resolver yields for the request as it arrived
ExpectedReqID(q) ==
    IF reqidf = "emptyRequestId" THEN "" ELSE arrived[q].ctx

\* the underlying writer after the handler's calls made on it directly
RECURSIVE Direct(_)
Direct(cs) ==
    IF cs = <<>> THEN NewResponseWriter
    ELSE LET u    == Direct(SubSeq(cs, 1, Len(cs) - 1))
             last == cs[Len(cs)]
         IN  IF last.op = "WriteHeader"
             THEN UnderlyingWriteHeader(u, last.arg)
             ELSE UnderlyingWrite(u, last.arg)

\* C1 as stated: every finished request has emitted exactly one "req_start"
\* record and had its handler invoked exactly once, whatever ended it, with
\* one "req_served" record if the handler returned and none otherwise.
C1_Original ==
    \A q \in Requests :
        Finished(q) =>
            /\ Cardinality(Emitted(q, "req_start")) = 1
            /\ runs[q].invoked = 1
            /\ Cardinality(Emitted(q, "req_served")) =
                   (IF runs[q].returned = 1 THEN 1 ELSE 0)

\* C1 amended: for every request whose resolver returned, exactly one
\* "req_start" record is emitted, before the handler starts running; the
\* handler is invoked exactly once, between the two records; one "req_served"
\* record is emitted after the handler has returned and none if it panicked.
\* No request ever has more than one record of a kind or more than one
\* invocation of its handler.
C1_TwoRecordsAroundHandler ==
    \A q \in Requests :
        /\ Cardinality(Emitted(q, "req_start")) <= 1
        /\ Cardinality(Emitted(q, "req_served")) <= 1
        /\ runs[q].invoked <= 1
        /\ runs[q].invoked = 1 => Cardinality(Emitted(q, "req_start")) = 1
        /\ (ResolverReturned(q) /\ Finished(q)) =>
               /\ Cardinality(Emitted(q, "req_start")) = 1
               /\ runs[q].invoked = 1
        /\ pc[q] = "handler" => Emitted(q, "req_served") = {}
        /\ runs[q].panicked >= 1 => Emitted(q, "req_served") = {}
        /\ Emitted(q, "req_served") # {} =>
               /\ runs[q].returned = 1
               /\ \A i \in Emitted(q, "req_start") :
                      \A j \in Emitted(q, "req_served") : i < j
        /\ pc[q] = "done" <=> Cardinality(Emitted(q, "req_served")) = 1

C1_Witness ==
    \E q \in Requests :
        /\ pc[q] = "done"
        /\ calls[q] # <<>>
        /\ Cardinality(Emitted(q, "req_start")) = 1
        /\ Cardinality(Emitted(q, "req_served")) = 1

\* C2: the status of a request's "req_served" record is the first code its
\* handler passed to WriteHeader, or 200 if the handler's first call was a
\* Write, or 200 if the handler made no call at all.
C2_ServedStatus ==
    \A q \in Requests :
        \A i \in Emitted(q, "req_served") :
            l[i].fields.status = ExpectedStatus(calls[q])

C2_Witness ==
    \E q \in Requests :
        /\ Emitted(q, "req_served") # {}
        /\ Len(calls[q]) >= 2
        /\ calls[q][1].op = "WriteHeader"
        /\ calls[q][2].op = "WriteHeader"
        /\ calls[q][1].arg # calls[q][2].arg

\* C3: the resolver is consulted at most once for a request, and the req_id
\* of every record of the request is the value it returned, which is the id
\* of the context the request arrived with (the empty string under
\* emptyRequestId), whatever the handler assigned to the request since.
C3_SameReqID ==
    \A q \in Requests :
        /\ Len(resolved[q]) <= 1
        /\ \A i \in Emitted(q, "req_start") \cup Emitted(q, "req_served") :
               /\ Len(resolved[q]) = 1
               /\ l[i].fields.req_id = resolved[q][1]
               /\ l[i].fields.req_id = ExpectedReqID(q)
               /\ reqidf = "emptyRequestId" => l[i].fields.req_id = ""

C3_Witness ==
    \E q \in Requests :
        /\ reqidf = "fromContext"
        /\ r[q].ctx # arrived[q].ctx
        /\ Emitted(q, "req_start") # {}
        /\ Emitted(q, "req_served") # {}

\* C4: with requests served concurrently, every record carries the values of
\* the request that emitted it: the req_id resolved from its own context, the
\* fields of its own *http.Request, the status its own handler's calls
\* produced and the latency between its own two clock readings.
C4_OwnValuesOnly ==
    \A i \in DOMAIN l :
        LET q == l[i].of
            f == l[i].fields
        IN  /\ f.req_id = ExpectedReqID(q)
            /\ l[i].msg = "req_start" =>
                   /\ f.uri = arrived[q].RequestURI
                   /\ f.method = arrived[q].Method
                   /\ f.remote = arrived[q].RemoteAddr
            /\ l[i].msg = "req_served" =>
                   /\ f.status = ExpectedStatus(calls[q])
                   /\ f.uri = r[q].RequestURI
                   /\ f.method = r[q].Method
                   /\ f.remote = r[q].RemoteAddr
                   /\ Len(reads[q]) = 2
                   /\ f.latency = Sprintf(reads[q][2] - reads[q][1])

\* both requests in flight at once, differing in every value, both served
C4_Witness ==
    /\ Len(l) = 4
    /\ l[1].msg = "req_start" /\ l[2].msg = "req_start"
    /\ l[3].msg = "req_served" /\ l[4].msg = "req_served"
    /\ l[3].of = l[1].of
    /\ l[3].fields.status # l[4].fields.status
    /\ l[3].fields.req_id # l[4].fields.req_id
    /\ l[3].fields.latency # l[4].fields.latency
    /\ l[3].fields.uri # l[4].fields.uri

\* C5: every record is at level info and is either a "req_start" record with
\* exactly the fields req_id, uri, method, remote or a "req_served" record
\* with exactly the fields req_id, status, method, uri, remote, latency, app,
\* app being the name given at construction.
C5_RecordShapes ==
    \A i \in DOMAIN l :
        /\ l[i].level = "info"
        /\ \/ /\ l[i].msg = "req_start"
              /\ DOMAIN l[i].fields = {"req_id", "uri", "method", "remote"}
           \/ /\ l[i].msg = "req_served"
              /\ DOMAIN l[i].fields =
                     {"req_id", "status", "method", "uri", "remote", "latency", "app"}
              /\ l[i].fields.app = name

C5_Witness ==
    /\ \E i \in DOMAIN l : l[i].msg = "req_start"
    /\ \E i \in DOMAIN l : l[i].msg = "req_served"

\* C6: a panic is never caught.  If the resolver panics, fn ends by that
\* panic with no record emitted and the handler never invoked; if the handler
\* panics, fn ends by that panic with exactly one "req_start" record, no
\* "req_served" record and line 88 not run.
C6_PanicsPropagate ==
    \A q \in Requests :
        /\ ResolverPanicked(q) =>
               /\ pc[q] = "panicked"
               /\ Emitted(q, "req_start") = {}
               /\ Emitted(q, "req_served") = {}
               /\ runs[q].invoked = 0
        /\ runs[q].panicked >= 1 =>
               /\ pc[q] = "panicked"
               /\ Cardinality(Emitted(q, "req_start")) = 1
               /\ Emitted(q, "req_served") = {}
               /\ finalized[q] = <<>>
        /\ pc[q] = "panicked" => (ResolverPanicked(q) \/ runs[q].panicked = 1)

C6_Witness ==
    \E q \in Requests :
        /\ runs[q].panicked = 1
        /\ calls[q] # <<>>
        /\ pc[q] = "panicked"

\* C7: once the proxy's status-written flag is true no call changes its
\* captured status; the captured status is always the one the first call
\* fixed (WriteHeader(a), WriteHeader(b) leaves a; Write, WriteHeader(b)
\* leaves 200).
C7_StatusRecordedOnce ==
    /\ [][\A q \in Requests :
             lresp[q].wroteHeader =>
                 /\ lresp'[q].wroteHeader
                 /\ lresp'[q].code = lresp[q].code]_vars
    /\ [](\A q \in Requests :
             lresp[q].wroteHeader => lresp[q].code = ExpectedStatus(calls[q]))

C7_Witness ==
    \E q \in Requests :
        /\ Len(calls[q]) = 3
        /\ calls[q][1].op = "Write"
        /\ calls[q][2].op = "WriteHeader"
        /\ calls[q][3].op = "WriteHeader"
        /\ calls[q][2].arg # calls[q][3].arg
        /\ lresp[q].code = 200
        /\ pc[q] = "done"

\* C8: line 88 runs exactly once for a request whose handler returned, right
\* after the return and before "req_served" is emitted; it sends WriteHeader
\* (200) to the underlying writer, once, if and only if the handler made no
\* WriteHeader and no Write call, and otherwise sends nothing and leaves the
\* captured status and the underlying writer as they were.
C8_FinalizeOnce ==
    /\ [](\A q \in Requests :
             /\ Len(finalized[q]) <= 1
             /\ pc[q] \in {"log_served", "done"} => Len(finalized[q]) = 1
             /\ Emitted(q, "req_served") # {} => Len(finalized[q]) = 1
             /\ finalized[q] # <<>> => runs[q].returned = 1
             /\ (runs[q].returned = 1 /\ finalized[q] = <<>>) => pc[q] = "finalize"
             /\ finalized[q] # <<>> =>
                    finalized[q][1] = (IF calls[q] = <<>> THEN <<200>> ELSE <<>>))
    /\ [][\A q \in Requests :
             (finalized'[q] # finalized[q] /\ lresp[q].wroteHeader) =>
                 /\ lresp'[q] = lresp[q]
                 /\ w'[q] = w[q]]_vars

C8_Witness ==
    \E q \in Requests :
        /\ pc[q] = "done"
        /\ calls[q] = <<>>
        /\ finalized[q] = << <<200>> >>
        /\ w[q].headerCalls = <<200>>

\* C9: what the underlying writer sends, status and body, is at every moment
\* what it would send had the handler's calls been made on it directly.
C9_PassThrough ==
    \A q \in Requests : Sent(w[q]) = Sent(Direct(calls[q]))

C9_Witness ==
    \E q \in Requests :
        /\ pc[q] = "done"
        /\ Len(calls[q]) = 3
        /\ calls[q][1].op = "Write"
        /\ calls[q][2].op = "WriteHeader"
        /\ calls[q][3].op = "Write"
        /\ calls[q][1].arg # calls[q][3].arg

\* C10 as stated: the uri, method and remote of a request's "req_served"
\* record equal those of its "req_start" record.
C10_Original ==
    \A q \in Requests :
        \A i \in Emitted(q, "req_start") :
            \A j \in Emitted(q, "req_served") :
                /\ l[j].fields.uri = l[i].fields.uri
                /\ l[j].fields.method = l[i].fields.method
                /\ l[j].fields.remote = l[i].fields.remote

\* C10 amended: "req_start" carries the uri, method and remote the request
\* arrived with; "req_served" carries those of the request object as the
\* handler left it, field by field, so each equals the field of "req_start"
\* exactly when the handler left that field of the request as it was.
C10_ServedReadsRequestAgain ==
    \A q \in Requests :
        /\ \A i \in Emitted(q, "req_start") :
               /\ l[i].fields.uri = arrived[q].RequestURI
               /\ l[i].fields.method = arrived[q].Method
               /\ l[i].fields.remote = arrived[q].RemoteAddr
        /\ \A j \in Emitted(q, "req_served") :
               /\ l[j].fields.uri = r[q].RequestURI
               /\ l[j].fields.method = r[q].Method
               /\ l[j].fields.remote = r[q].RemoteAddr
               /\ \A i \in Emitted(q, "req_start") :
                      /\ l[j].fields.uri = l[i].fields.uri
                             <=> r[q].RequestURI = arrived[q].RequestURI
                      /\ l[j].fields.method = l[i].fields.method
                             <=> r[q].Method = arrived[q].Method
                      /\ l[j].fields.remote = l[i].fields.remote
                             <=> r[q].RemoteAddr = arrived[q].RemoteAddr

C10_Witness ==
    \E q \in Requests :
        /\ Emitted(q, "req_served") # {}
        /\ r[q].Method # arrived[q].Method
        /\ r[q].RequestURI = arrived[q].RequestURI

====
